---- MODULE Spec2Model ----
(***************************************************************************)
(* Model of dfw's configuration processing (src/src/process.rs): the       *)
(* Process trait and its generic Option/Vec implementations, the           *)
(* ProcessContext (snapshot construction and the derive-then-apply cycle)  *)
(* and the helpers get_bridge_name, get_container_map, get_network_map and *)
(* generate_marker.                                                        *)
(*                                                                         *)
(* Strings are sequences of one-character strings, so that length, slicing *)
(* and prefix stripping are computed the way the Rust code computes them.  *)
(* Identifiers and names are ASCII, as the container runtime assigns them, *)
(* so a byte of the Rust &str is one element of the sequence.              *)
(***************************************************************************)
EXTENDS Integers, Sequences, FiniteSets, TLC

VARIABLES
    containers,   \* the runtime's current container list (docker.containers().list)
    networks,     \* the runtime's current network list (docker.networks().list)
    dfw,          \* the policy tree handed to ProcessContext::new
    dry_run,      \* the dry_run flag handed to ProcessContext::new
    pending,      \* a reconciliation request is waiting (coalesced)
    lock,         \* the worker holding the cycle mutex, 0 when free
    pc,           \* per worker: "idle" or "built" (between new and process)
    ctx,          \* per worker: the ProcessContext it built, or NoCtx
    built_from,   \* per worker: the runtime lists its context was built from
    backend,      \* the enforced firewall state
    prev,         \* record of the cycle that ended before the last one
    last,         \* record of the cycle that ended last
    arg,          \* argument of the helper function under test
    ret           \* its result, Pending before the call

vars == <<containers, networks, dfw, dry_run, pending, lock, pc, ctx,
          built_from, backend, prev, last, arg, ret>>

loopVars == <<containers, networks, dfw, dry_run, pending, lock, pc, ctx,
              built_from, backend, prev, last>>

-----------------------------------------------------------------------------
(* Bounds *)

MaxIdLen == 13        \* longest network identifier enumerated
MaxComponents == 2    \* most components handed to generate_marker
MaxComponentLen == 2  \* longest marker component enumerated
MaxContainers == 2    \* longest container list handed to get_container_map
MaxChildren == 2      \* most children of a list node
NumWorkers == 2       \* threads that may run a reconciliation cycle

-----------------------------------------------------------------------------
(* Results: Result<T> is Ok(v) or Err(e); Option<T> is Some(v) or None *)

Ok(v) == [ok |-> TRUE, val |-> v]
Err(e) == [ok |-> FALSE, err |-> e]
None == [some |-> FALSE]
Some(v) == [some |-> TRUE, val |-> v]

\* A helper's result slot: before the call, and after it returned v.
NotCalled == [called |-> FALSE]
Returned(v) == [called |-> TRUE, val |-> v]

\* The strings of length lo..hi over an alphabet.
Strings(alphabet, lo, hi) == UNION {[1..n -> alphabet] : n \in lo..hi}

-----------------------------------------------------------------------------
(* get_bridge_name *)

BridgePrefix == <<"b", "r", "-">>
BridgeIdLen == 12

\* Mutant: an identifier of exactly 12 characters is rejected too.
get_bridge_name_longer(network_id) ==
    IF Len(network_id) <= BridgeIdLen
    THEN Err("network has to be longer than 12 characters")
    ELSE Ok(BridgePrefix \o SubSeq(network_id, 1, BridgeIdLen))

get_bridge_name(network_id) ==
    IF Len(network_id) < BridgeIdLen
    THEN Err("network has to be longer than 12 characters")
    ELSE Ok(BridgePrefix \o SubSeq(network_id, 1, BridgeIdLen))

-----------------------------------------------------------------------------
(* generate_marker *)

MarkerTag == <<"D", "F", "W", "-", "M", "A", "R", "K", "E", "R", ":">>
Delimiter == ";"

\* [&str]::join(";"): the components with one delimiter between neighbours.
RECURSIVE Join(_)
Join(components) ==
    IF components = <<>> THEN <<>>
    ELSE IF Len(components) = 1 THEN components[1]
    ELSE components[1] \o <<Delimiter>> \o Join(Tail(components))

\* Mutant: the components are concatenated without the delimiter.
RECURSIVE Concat(_)
Concat(components) ==
    IF components = <<>> THEN <<>>
    ELSE components[1] \o Concat(Tail(components))

generate_marker_concat(components) == MarkerTag \o Concat(components)

generate_marker(components) == MarkerTag \o Join(components)

\* str::split(';'): the pieces between delimiters, one piece for a string
\* without a delimiter.
RECURSIVE Split(_, _)
Split(s, piece) ==
    IF s = <<>> THEN <<piece>>
    ELSE IF Head(s) = Delimiter
         THEN <<piece>> \o Split(Tail(s), <<>>)
         ELSE Split(Tail(s), Append(piece, Head(s)))

-----------------------------------------------------------------------------
(* get_container_map and get_network_map *)

EmptyMap == [k \in {} |-> {}]

\* Mutant: a present key keeps its first value.
InsertIfAbsent(map, key, value) ==
    [k \in (DOMAIN map) \cup {key} |->
        IF k \in DOMAIN map THEN map[k] ELSE value]

\* HashMap::insert: a present key is overwritten.
Insert(map, key, value) ==
    [k \in (DOMAIN map) \cup {key} |-> IF k = key THEN value ELSE map[k]]

\* str::trim_start_matches('/'): every leading '/' is removed.
RECURSIVE trim_start_matches(_)
trim_start_matches(name) ==
    IF name # <<>> /\ Head(name) = "/"
    THEN trim_start_matches(Tail(name))
    ELSE name

\* The inner loop of get_container_map: one insert per name of the container.
RECURSIVE InsertNames(_, _, _)
InsertNames(map, container, i) ==
    IF i > Len(container.names) THEN map
    ELSE InsertNames(
             Insert(map, trim_start_matches(container.names[i]), container),
             container, i + 1)

\* The outer loop of get_container_map, from container i on.
RECURSIVE InsertContainers(_, _, _)
InsertContainers(map, cs, i) ==
    IF i > Len(cs) THEN map
    ELSE InsertContainers(InsertNames(map, cs[i], 1), cs, i + 1)

get_container_map(cs) == Ok(InsertContainers(EmptyMap, cs, 1))

\* The loop of get_network_map, from network i on.
RECURSIVE InsertNetworks(_, _, _)
InsertNetworks(map, ns, i) ==
    IF i > Len(ns) THEN map
    ELSE InsertNetworks(Insert(map, ns[i].name, ns[i]), ns, i + 1)

\* Mutant: the emptiness check is missing.
get_network_map_unchecked(ns) == Ok(Some(InsertNetworks(EmptyMap, ns, 1)))

get_network_map(ns) ==
    LET network_map == InsertNetworks(EmptyMap, ns, 1)
    IN  IF DOMAIN network_map = {} THEN Ok(None) ELSE Ok(Some(network_map))

-----------------------------------------------------------------------------
(* The Process trait and its implementations for Option<T> and Vec<T>.     *)
(* A policy node is one of                                                  *)
(*   [k |-> "leaf", r |-> result]      an implementor with a fixed result   *)
(*   [k |-> "entry", container, rule]  a category entry naming a container  *)
(*   [k |-> "opt", v |-> None | Some(node)]                                 *)
(*   [k |-> "list", c |-> <<node, ...>>]                                    *)

Leaf(r) == [k |-> "leaf", r |-> r]
Entry(name, rule) == [k |-> "entry", container |-> name, rule |-> rule]
Opt(v) == [k |-> "opt", v |-> v]
List(c) == [k |-> "list", c |-> c]

\* A category entry: no rules when its container is absent from the snapshot.
EntryProcess(node, c) ==
    IF node.container \in DOMAIN c.container_map
    THEN Ok(Some(<<node.rule>>))
    ELSE Ok(None)

RECURSIVE NodeProcess(_, _)

\* impl Process for Option<T>
OptionProcess(node, c) ==
    IF node.v.some THEN NodeProcess(node.v.val, c) ELSE Ok(None)

\* The for loop of impl Process for Vec<T>, from child i on, with the rules
\* collected so far; the ? operator returns a child's error at once.
RECURSIVE VecLoop(_, _, _, _)
VecLoop(children, i, rules, c) ==
    IF i > Len(children) THEN Ok(Some(rules))
    ELSE LET r == NodeProcess(children[i], c)
         IN  IF ~r.ok THEN r
             ELSE IF r.val.some
                  THEN VecLoop(children, i + 1, rules \o r.val.val, c)
                  ELSE VecLoop(children, i + 1, rules, c)

\* Mutant: a child's error is skipped like a child without rules.
RECURSIVE VecLoopSwallow(_, _, _, _)
VecLoopSwallow(children, i, rules, c) ==
    IF i > Len(children) THEN Ok(Some(rules))
    ELSE LET r == NodeProcess(children[i], c)
         IN  IF r.ok /\ r.val.some
             THEN VecLoopSwallow(children, i + 1, rules \o r.val.val, c)
             ELSE VecLoopSwallow(children, i + 1, rules, c)

VecProcessSwallow(node, c) == VecLoopSwallow(node.c, 1, <<>>, c)

\* Mutant: a child's rules are put in front of the rules collected so far.
RECURSIVE VecLoopPrepend(_, _, _, _)
VecLoopPrepend(children, i, rules, c) ==
    IF i > Len(children) THEN Ok(Some(rules))
    ELSE LET r == NodeProcess(children[i], c)
         IN  IF ~r.ok THEN r
             ELSE IF r.val.some
                  THEN VecLoopPrepend(children, i + 1, r.val.val \o rules, c)
                  ELSE VecLoopPrepend(children, i + 1, rules, c)

VecProcessPrepend(node, c) == VecLoopPrepend(node.c, 1, <<>>, c)

\* impl Process for Vec<T>
VecProcess(node, c) == VecLoop(node.c, 1, <<>>, c)

\* Process::process, dispatched on the node's type.
NodeProcess(node, c) ==
    CASE node.k = "leaf" -> node.r
      [] node.k = "entry" -> EntryProcess(node, c)
      [] node.k = "opt" -> OptionProcess(node, c)
      [] node.k = "list" -> VecProcess(node, c)

-----------------------------------------------------------------------------
(* ProcessContext *)

\* ProcessContext::new, given the results of the two runtime list queries.
\* The container list is the one the runtime returns for the configured
\* container filter.
ContextNew(container_query, network_query, policy, dr) ==
    IF ~container_query.ok THEN container_query
    ELSE LET container_map == get_container_map(container_query.val)
         IN  IF ~container_map.ok THEN container_map
             ELSE IF ~network_query.ok THEN network_query
             ELSE LET network_map == get_network_map(network_query.val)
                  IN  IF ~network_map.ok THEN network_map
                      ELSE IF ~network_map.val.some
                           THEN Err("no networks found")
                           ELSE Ok([dfw |-> policy,
                                    container_map |-> container_map.val,
                                    network_map |-> network_map.val.val,
                                    dry_run |-> dr])

\* Mutant: the new rules are appended, the rules installed before stay.
BackendApplyAppend(state, rules, c) ==
    IF c.dry_run THEN state
    ELSE state \o [i \in 1..Len(rules) |-> [rule |-> rules[i], owned |-> TRUE]]

\* FirewallBackend::apply on the enforced state: the rules this system owns
\* are replaced by the new list, the rules of others stay; a dry run installs
\* nothing.
BackendApply(state, rules, c) ==
    IF c.dry_run THEN state
    ELSE SelectSeq(state, LAMBDA e : ~e.owned)
         \o [i \in 1..Len(rules) |-> [rule |-> rules[i], owned |-> TRUE]]

\* Mutant: in a dry run B::apply is not called.
ContextProcessSkipDryRun(c, state, apply_ok) ==
    LET rules == NodeProcess(c.dfw, c)
    IN  IF ~rules.ok
        THEN [derived |-> rules, apply |-> None, result |-> rules,
              after |-> state]
        ELSE IF rules.val.some /\ ~c.dry_run
        THEN [derived |-> rules,
              apply |-> Some([rules |-> rules.val.val, dry_run |-> c.dry_run]),
              result |-> IF apply_ok THEN Ok(<<>>) ELSE Err("backend"),
              after |-> IF apply_ok
                        THEN BackendApply(state, rules.val.val, c)
                        ELSE state]
        ELSE [derived |-> rules, apply |-> None, result |-> Ok(<<>>),
              after |-> state]

\* Mutant: an empty rule list is not handed to B::apply.
ContextProcessSkipEmpty(c, state, apply_ok) ==
    LET rules == NodeProcess(c.dfw, c)
    IN  IF ~rules.ok
        THEN [derived |-> rules, apply |-> None, result |-> rules,
              after |-> state]
        ELSE IF rules.val.some /\ rules.val.val # <<>>
        THEN [derived |-> rules,
              apply |-> Some([rules |-> rules.val.val, dry_run |-> c.dry_run]),
              result |-> IF apply_ok THEN Ok(<<>>) ELSE Err("backend"),
              after |-> IF apply_ok
                        THEN BackendApply(state, rules.val.val, c)
                        ELSE state]
        ELSE [derived |-> rules, apply |-> None, result |-> Ok(<<>>),
              after |-> state]

\* ProcessContext::process on the enforced state `state`, where apply_ok is the
\* outcome of B::apply should it be called. The record holds the derived rules,
\* the call of B::apply (None when it was not called), the value returned and
\* the enforced state afterwards.
ContextProcess(c, state, apply_ok) ==
    LET rules == NodeProcess(c.dfw, c)
    IN  IF ~rules.ok
        THEN [derived |-> rules, apply |-> None, result |-> rules,
              after |-> state]
        ELSE IF rules.val.some
        THEN [derived |-> rules,
              apply |-> Some([rules |-> rules.val.val, dry_run |-> c.dry_run]),
              result |-> IF apply_ok THEN Ok(<<>>) ELSE Err("backend"),
              after |-> IF apply_ok
                        THEN BackendApply(state, rules.val.val, c)
                        ELSE state]
        ELSE [derived |-> rules, apply |-> None, result |-> Ok(<<>>),
              after |-> state]

-----------------------------------------------------------------------------
(* The reconciliation loop: events request cycles, workers run them *)

Workers == 1..NumWorkers

Web == [id |-> "c1", names |-> <<<<"/", "w", "e", "b">>>>]
Db == [id |-> "c2", names |-> <<<<"/", "d", "b">>>>]
WebName == <<"w", "e", "b">>
DbName == <<"d", "b">>
Bridge == [id |-> "n1", name |-> "bridge"]
Host == [id |-> "n2", name |-> "host"]
Bridge2 == [id |-> "n3", name |-> "bridge"]

Topology(cs, ns) == [containers |-> cs, networks |-> ns]
Topologies ==
    { Topology(<<Web>>, <<>>),
      Topology(<<Web, Db>>, <<Bridge, Host>>),
      Topology(<<Web>>, <<Bridge, Bridge2>>) }

PolicyChildren ==
    { Leaf(Err("e1")),
      Leaf(Ok(Some(<<"r1">>))),
      Entry(DbName, "r2"),
      List(<<Leaf(Ok(Some(<<"r3">>))), Leaf(Err("e2"))>>) }

Policies ==
    {Opt(None)}
    \cup {List(c) : c \in Strings(PolicyChildren, 0, MaxChildren)}

NoCycle == [ran |-> FALSE]

\* Which runtime list query of ProcessContext::new fails, if any (the network
\* query is not made once the container query failed).
QueryFailures == {"none", "containers", "networks"}

\* The record of a cycle whose ProcessContext::new failed.
FailedNew(t, failed, r, state) ==
    [ran |-> TRUE, topo |-> t, failed |-> failed,
     built |-> FALSE, derived |-> NotCalled, apply |-> None, result |-> r,
     before |-> state, after |-> state]

\* The record of a cycle that got as far as ProcessContext::process.
Processed(t, state, p) ==
    [ran |-> TRUE, topo |-> t, failed |-> "none",
     built |-> TRUE, derived |-> Returned(p.derived), apply |-> p.apply,
     result |-> p.result, before |-> state, after |-> p.after]

\* Mutant: a waiting request starts a cycle whether or not one is running.
CanStartUnlocked(w) == pending

\* A worker may start a cycle when a request is waiting and no cycle runs.
CanStart(w) == pending /\ lock = 0

Init ==
    /\ \E t \in Topologies :
          containers = t.containers /\ networks = t.networks
    /\ dfw \in Policies
    /\ dry_run \in BOOLEAN
    /\ pending = TRUE
    /\ lock = 0
    /\ pc = [w \in Workers |-> "idle"]
    /\ ctx = [w \in Workers |-> None]
    /\ built_from = [w \in Workers |-> None]
    /\ backend = <<[rule |-> "x", owned |-> FALSE]>>
    /\ prev = NoCycle
    /\ last = NoCycle
    /\ arg = <<>>
    /\ ret = NotCalled

\* A topology-change event: the runtime's lists change and a reconciliation
\* is requested; requests that wait are coalesced into one.
Event ==
    /\ \E t \in Topologies :
          containers' = t.containers /\ networks' = t.networks
    /\ pending' = TRUE
    /\ UNCHANGED <<dfw, dry_run, lock, pc, ctx, built_from, backend, prev,
                   last, arg, ret>>

\* A worker takes the request and builds the ProcessContext of its cycle.
Begin(w) ==
    /\ pc[w] = "idle"
    /\ CanStart(w)
    /\ pending' = FALSE
    /\ \E failed \in QueryFailures :
          LET t == Topology(containers, networks)
              cq == IF failed = "containers"
                    THEN Err("docker") ELSE Ok(containers)
              nq == IF failed = "networks"
                    THEN Err("docker") ELSE Ok(networks)
              r == ContextNew(cq, nq, dfw, dry_run)
          IN  IF r.ok
              THEN /\ lock' = w
                   /\ pc' = [pc EXCEPT ![w] = "built"]
                   /\ ctx' = [ctx EXCEPT ![w] = Some(r.val)]
                   /\ built_from' = [built_from EXCEPT ![w] = Some(t)]
                   /\ UNCHANGED <<prev, last>>
              ELSE /\ prev' = last
                   /\ last' = FailedNew(t, failed, r, backend)
                   /\ UNCHANGED <<lock, pc, ctx, built_from>>
    /\ UNCHANGED <<containers, networks, dfw, dry_run, backend, arg, ret>>

\* The worker runs ProcessContext::process and ends its cycle.
Process(w) ==
    /\ pc[w] = "built"
    /\ \E apply_ok \in BOOLEAN :
          LET p == ContextProcess(ctx[w].val, backend, apply_ok)
          IN  /\ backend' = p.after
              /\ prev' = last
              /\ last' = Processed(built_from[w].val, backend, p)
    /\ lock' = IF lock = w THEN 0 ELSE lock
    /\ pc' = [pc EXCEPT ![w] = "idle"]
    /\ ctx' = [ctx EXCEPT ![w] = None]
    /\ built_from' = [built_from EXCEPT ![w] = None]
    /\ UNCHANGED <<containers, networks, dfw, dry_run, pending, arg, ret>>

Next ==
    \/ Event
    \/ \E w \in Workers : Begin(w)
    \/ \E w \in Workers : Process(w)

Spec == Init /\ [][Next]_vars

-----------------------------------------------------------------------------
(* Claims about the reconciliation cycle, checked under Spec *)

\* The cycle that ended last got as far as ProcessContext::process.
LastProcessed == last.ran /\ last.built

\* The rule derivation of that cycle succeeded with Some(list).
LastDerivedSome ==
    LastProcessed /\ last.derived.val.ok /\ last.derived.val.val.some

\* C1 as stated: in dry-run mode ProcessContext::process never calls
\* B::apply.
C1_DryRunNeverApplies ==
    (LastProcessed /\ dry_run) => ~last.apply.some

\* C1 as amended: in dry-run mode ProcessContext::process still calls B::apply
\* whenever the derivation yields Some(list), with exactly the derived list
\* and a context whose dry_run flag is set; not installing is the backend's
\* part.
C1_DryRunAppliesWithFlag ==
    (LastDerivedSome /\ dry_run) =>
        last.apply = Some([rules |-> last.derived.val.val.val,
                           dry_run |-> TRUE])

C1_Witness ==
    /\ LastDerivedSome
    /\ dry_run
    /\ last.apply.some
    /\ last.apply.val.rules # <<>>

\* C2: at most one worker is between ProcessContext::new and the end of
\* ProcessContext::process at any time, and that worker holds the lock.
C2_OneCycleAtATime ==
    /\ Cardinality({w \in Workers : pc[w] = "built"}) <= 1
    /\ \A w \in Workers : pc[w] = "built" => lock = w

\* A request has arrived while a cycle is running.
C2_Witness == \E w \in Workers : pc[w] = "built" /\ pending

\* The errors the nodes of a policy tree return when they are processed.
RECURSIVE NodeErrors(_)
NodeErrors(node) ==
    CASE node.k = "leaf" -> IF node.r.ok THEN {} ELSE {node.r.err}
      [] node.k = "entry" -> {}
      [] node.k = "opt" -> IF node.v.some THEN NodeErrors(node.v.val) ELSE {}
      [] node.k = "list" ->
            UNION {NodeErrors(node.c[i]) : i \in 1..Len(node.c)}

\* C3: when a node of the policy tree returns an error, at whatever position
\* and depth, ProcessContext::process returns an error of the tree, B::apply
\* is not called and the enforced state is the one before the cycle.
C3_ErrorAbortsCycle ==
    (LastProcessed /\ NodeErrors(dfw) # {}) =>
        /\ ~last.result.ok
        /\ last.result.err \in NodeErrors(dfw)
        /\ last.derived.val = last.result
        /\ ~last.apply.some
        /\ last.after = last.before
        /\ backend = last.after

\* The error of a nested list that had already derived a rule ended a cycle.
C3_Witness ==
    /\ LastProcessed
    /\ ~last.result.ok
    /\ last.result.err = "e2"
    /\ \E i \in 1..Len(dfw.c) :
          /\ dfw.c[i].k = "list"
          /\ \A j \in 1..(i - 1) : NodeErrors(dfw.c[j]) = {}

\* C4 as stated: a derivation that yields no rules, Some(empty list)
\* included, makes process return success without calling B::apply.
C4_EmptyListNotApplied ==
    (LastDerivedSome /\ last.derived.val.val.val = <<>>) =>
        (~last.apply.some /\ last.result.ok)

\* C4 as amended: process calls B::apply exactly when the derivation yields
\* Some(list), the empty list included, and then returns what B::apply
\* returns; when the derivation yields None it returns success without
\* calling B::apply.
C4_AppliesIffSome ==
    LastProcessed =>
        /\ last.apply.some <=> LastDerivedSome
        /\ LastDerivedSome =>
              last.apply.val.rules = last.derived.val.val.val
        /\ (last.derived.val.ok /\ ~last.derived.val.val.some) =>
              (last.result.ok /\ last.after = last.before)

C4_Witness ==
    /\ LastDerivedSome
    /\ last.derived.val.val.val = <<>>
    /\ last.apply.some
    /\ last.apply.val.rules = <<>>

\* Two cycles in a row ran to the end on the same runtime lists, and the
\* first one applied its rules.
TwoCyclesUnchanged ==
    /\ prev.ran /\ prev.built /\ prev.result.ok /\ prev.apply.some
    /\ LastProcessed /\ last.result.ok
    /\ prev.topo = last.topo

C8_NewFailsIffNoNetworks ==
    /\ last.ran =>
          /\ last.built <=>
                (last.failed = "none" /\ last.topo.networks # <<>>)
          /\ ~last.built => ~last.result.ok
    /\ \A w \in Workers :
          /\ ctx[w].some <=> pc[w] = "built"
          /\ ctx[w].some =>
                LET ns == built_from[w].val.networks
                IN  /\ ns # <<>>
                    /\ DOMAIN ctx[w].val.network_map # {}
                    /\ \A i \in 1..Len(ns) :
                          ns[i].name \in DOMAIN ctx[w].val.network_map

\* Construction failed on an empty network list though both queries succeeded.
C8_Witness ==
    /\ last.ran
    /\ ~last.built
    /\ last.failed = "none"
    /\ last.topo.networks = <<>>
    /\ last.result = Err("no networks found")

-----------------------------------------------------------------------------
(* The helper functions on their own: the argument is drawn in the initial *)
(* state and the call stores the result; the reconciliation loop is at rest *)

LoopAtRest ==
    /\ containers = <<>>
    /\ networks = <<>>
    /\ dfw = Opt(None)
    /\ dry_run = FALSE
    /\ pending = FALSE
    /\ lock = 0
    /\ pc = [w \in Workers |-> "idle"]
    /\ ctx = [w \in Workers |-> None]
    /\ built_from = [w \in Workers |-> None]
    /\ backend = <<>>
    /\ prev = NoCycle
    /\ last = NoCycle

(* get_bridge_name *)

IdAlphabet == {"0", "a"}
NetworkIds == Strings(IdAlphabet, 0, MaxIdLen)

InitBridge == LoopAtRest /\ arg \in NetworkIds /\ ret = NotCalled

CallGetBridgeName ==
    /\ ~ret.called
    /\ ret' = Returned(get_bridge_name(arg))
    /\ UNCHANGED <<arg, loopVars>>

SpecBridge == InitBridge /\ [][CallGetBridgeName]_vars

\* C6: get_bridge_name fails exactly for identifiers shorter than 12
\* characters; otherwise it returns "br-" followed by the first 12 characters
\* of the identifier, 15 characters in all.
C6_BridgeName ==
    ret.called =>
        /\ ~ret.val.ok <=> Len(arg) < 12
        /\ ret.val.ok =>
              /\ Len(ret.val.val) = 15
              /\ ret.val.val[1] = "b"
              /\ ret.val.val[2] = "r"
              /\ ret.val.val[3] = "-"
              /\ \A i \in 1..12 : ret.val.val[3 + i] = arg[i]

\* An identifier of exactly 12 characters was accepted.
C6_Witness == ret.called /\ Len(arg) = 12 /\ ret.val.ok

(* generate_marker *)

MarkerAlphabet == {"a", "b", Delimiter}
Components == Strings(MarkerAlphabet, 0, MaxComponentLen)
ComponentSeqs == Strings(Components, 0, MaxComponents)

InitMarker == LoopAtRest /\ arg \in ComponentSeqs /\ ret = NotCalled

CallGenerateMarker ==
    /\ ~ret.called
    /\ ret' = Returned(generate_marker(arg))
    /\ UNCHANGED <<arg, loopVars>>

SpecMarker == InitMarker /\ [][CallGenerateMarker]_vars

\* C10 as stated: generate_marker is injective, no other component sequence
\* has the marker of this one.
C10_Injective ==
    ret.called =>
        \A other \in ComponentSeqs :
            other # arg => generate_marker(other) # ret.val

\* A component sequence that is not empty and whose components hold no
\* delimiter.
DelimiterFree(components) ==
    /\ components # <<>>
    /\ \A i \in 1..Len(components) :
          \A j \in 1..Len(components[i]) : components[i][j] # Delimiter

\* C10 as amended: the marker is "DFW-MARKER:" followed by the components
\* joined with ';', and on non-empty sequences of components without ';'
\* generate_marker is injective: splitting the marker's tail at ';' gives
\* back the components, so two such sequences never share a marker.
C10_InjectiveWithoutDelimiter ==
    ret.called =>
        /\ Len(ret.val) >= Len(MarkerTag)
        /\ SubSeq(ret.val, 1, Len(MarkerTag)) = MarkerTag
        /\ DelimiterFree(arg) =>
              Split(SubSeq(ret.val, Len(MarkerTag) + 1, Len(ret.val)), <<>>)
                  = arg

\* The marker of two components without a delimiter was generated.
C10_Witness ==
    /\ ret.called
    /\ DelimiterFree(arg)
    /\ Len(arg) = 2
    /\ arg[1] # arg[2]

(* get_container_map *)

NameLists ==
    { <<<<"/", "w">>>>,
      <<<<"/", "w">>, <<"/", "d">>>>,
      <<<<"/", "d">>, <<"/", "w", "/", "d">>>>,
      <<<<"w">>, <<"/", "/", "w">>>> }
MapContainers ==
    {[id |-> i, names |-> ns] : i \in {"c1", "c2", "c3"}, ns \in NameLists}
ContainerLists == Strings(MapContainers, 0, MaxContainers)

InitContainerMap == LoopAtRest /\ arg \in ContainerLists /\ ret = NotCalled

CallGetContainerMap ==
    /\ ~ret.called
    /\ ret' = Returned(get_container_map(arg))
    /\ UNCHANGED <<arg, loopVars>>

SpecContainerMap == InitContainerMap /\ [][CallGetContainerMap]_vars

\* The names of a container with every leading '/' removed.
StrippedNames(container) ==
    {trim_start_matches(container.names[i]) : i \in 1..Len(container.names)}

\* The position of the last container of the list that carries the name.
LastCarrier(cs, name) ==
    CHOOSE i \in 1..Len(cs) :
        /\ name \in StrippedNames(cs[i])
        /\ \A j \in (i + 1)..Len(cs) : name \notin StrippedNames(cs[j])

\* C7: the keys of the container map are the names of the listed containers
\* with the leading '/' stripped, and each key maps to the last container of
\* the list that carries the name.
C7_ContainerMap ==
    ret.called =>
        /\ ret.val.ok
        /\ DOMAIN ret.val.val =
              UNION {StrippedNames(arg[i]) : i \in 1..Len(arg)}
        /\ \A name \in DOMAIN ret.val.val :
              ret.val.val[name] = arg[LastCarrier(arg, name)]

\* Two different containers carried the same name; the later one is mapped.
C7_Witness ==
    /\ ret.called
    /\ Len(arg) = 2
    /\ arg[1] # arg[2]
    /\ StrippedNames(arg[1]) \cap StrippedNames(arg[2]) # {}
    /\ \E name \in DOMAIN ret.val.val : ret.val.val[name] = arg[2]

(* impl Process for Vec<T> and Option<T> *)

Rules == {<<>>, <<"r1">>, <<"r2", "r3">>}
TreeLeaves ==
    {Leaf(Err("e1")), Leaf(Ok(None))} \cup {Leaf(Ok(Some(r))) : r \in Rules}
InnerLists ==
    {List(c) : c \in Strings({Leaf(Err("e1")), Leaf(Ok(Some(<<"r1">>))),
                              Leaf(Ok(Some(<<"r2", "r3">>)))},
                             0, MaxChildren)}
TreeChildren ==
    TreeLeaves
    \cup {Entry(WebName, "r4"), Entry(DbName, "r5")}
    \cup {Opt(None), Opt(Some(Leaf(Ok(Some(<<"r6">>))))),
          Opt(Some(Leaf(Err("e2"))))}
    \cup InnerLists
Trees == {List(c) : c \in Strings(TreeChildren, 0, MaxChildren)}

\* The context of a host that runs the container web on the network bridge.
TreeContext == ContextNew(Ok(<<Web>>), Ok(<<Bridge>>), Opt(None), FALSE).val

InitTree == LoopAtRest /\ arg \in Trees /\ ret = NotCalled

CallProcess ==
    /\ ~ret.called
    /\ ret' = Returned(NodeProcess(arg, TreeContext))
    /\ UNCHANGED <<arg, loopVars>>

SpecTree == InitTree /\ [][CallProcess]_vars

\* The rules child i of a list contributes: those of its Some, none for None.
ChildRules(node, i) ==
    LET r == NodeProcess(node.c[i], TreeContext)
    IN  IF r.val.some THEN r.val.val ELSE <<>>

\* The number of rules the children before child i contribute.
RECURSIVE Offset(_, _)
Offset(node, i) ==
    IF i <= 1 THEN 0
    ELSE Offset(node, i - 1) + Len(ChildRules(node, i - 1))

\* C9: when all children of a list succeed, the list's result is Some of the
\* children's rules in declaration order: child i's rules stand, in their own
\* order, right after the rules of the children before it, and nothing else
\* is in the list.
C9_ListConcatenates ==
    (/\ ret.called
     /\ \A i \in 1..Len(arg.c) : NodeProcess(arg.c[i], TreeContext).ok) =>
        /\ ret.val.ok
        /\ ret.val.val.some
        /\ Len(ret.val.val.val) = Offset(arg, Len(arg.c) + 1)
        /\ \A i \in 1..Len(arg.c) :
              \A j \in 1..Len(ChildRules(arg, i)) :
                  ret.val.val.val[Offset(arg, i) + j] = ChildRules(arg, i)[j]

\* A list of a child with two rules and a child with rules of its own, none
\* of them empty-handed, was processed.
C9_Witness ==
    /\ ret.called
    /\ ret.val.ok
    /\ Len(arg.c) = 2
    /\ Len(ChildRules(arg, 1)) = 2
    /\ Len(ChildRules(arg, 2)) >= 1
    /\ ChildRules(arg, 1) # ChildRules(arg, 2)

====
